---- MODULE Spec2Model ----
(***************************************************************************)
(* Model of frontend/public/data/process_healthsites.py: the script loads  *)
(* a CSV of health sites, turns every row that has a facility type into a  *)
(* nested record, tallies summary counts and writes two JSON files.        *)
(*                                                                         *)
(* Python values are modelled as tagged records: the tag is field k, a     *)
(* string payload is field s, a numeric payload is field n, a list is      *)
(* field l and a dict is field d.  Floats are held in tenths (n = -139 is  *)
(* -13.9), which is the resolution of the inputs enumerated below.         *)
(***************************************************************************)
EXTENDS Integers, Sequences, FiniteSets, TLC

VARIABLES pc, csv, prior, disk, df, idx, processed, origin,
          processed_facilities, summary, i

vars == <<pc, csv, prior, disk, df, idx, processed, origin,
          processed_facilities, summary, i>>

(***************************************************************************)
(* Bounds of the model.                                                    *)
(***************************************************************************)
MaxRows == 3

MaxBrokenRows == 2

LongExtra == 14

(***************************************************************************)
(* Program constant: the slice bound of processed_facilities[:50].         *)
(***************************************************************************)
SampleSize == 50

(***************************************************************************)
(* Python values.                                                          *)
(***************************************************************************)
PyNone == [k |-> "None"]

NaN == [k |-> "nan"]

PyStr(s) == [k |-> "str", s |-> s]

PyFloat(t) == [k |-> "float", n |-> t]

PyInt(n) == [k |-> "int", n |-> n]

PyList(l) == [k |-> "list", l |-> l]

PyDict(d) == [k |-> "dict", d |-> d]

\* A raised exception, carried as a value until the enclosing step aborts.
Fault(e) == [k |-> "fault", e |-> e]

IsFault(v) == v.k = "fault"

\* pd.isna / pd.notna on a scalar: NaN and None are missing.
IsNa(v) == v.k \in {"nan", "None"}

NotNa(v) == ~IsNa(v)

\* Python truthiness (bool(v)): NaN is a non-zero float, hence truthy.
Truthy(v) ==
  CASE v.k = "None"  -> FALSE
    [] v.k = "nan"   -> TRUE
    [] v.k = "str"   -> v.s # ""
    [] v.k = "float" -> v.n # 0
    [] v.k = "int"   -> v.n # 0
    [] v.k = "list"  -> Len(v.l) > 0
    [] v.k = "dict"  -> DOMAIN v.d # {}
    [] OTHER         -> TRUE

(***************************************************************************)
(* Text to number, as int(str) and float(str) do it, for the grammar       *)
(* [sign] digits [ "." digit ].                                            *)
(***************************************************************************)
IsDigit(c) == c \in {"0", "1", "2", "3", "4", "5", "6", "7", "8", "9"}

DigitVal(c) ==
  CASE c = "0" -> 0 [] c = "1" -> 1 [] c = "2" -> 2 [] c = "3" -> 3
    [] c = "4" -> 4 [] c = "5" -> 5 [] c = "6" -> 6 [] c = "7" -> 7
    [] c = "8" -> 8 [] c = "9" -> 9

AllDigits(s) == Len(s) > 0 /\ \A j \in 1..Len(s) : IsDigit(SubSeq(s, j, j))

RECURSIVE DecValue(_)
DecValue(s) ==
  IF Len(s) = 0 THEN 0
  ELSE 10 * DecValue(SubSeq(s, 1, Len(s) - 1)) + DigitVal(SubSeq(s, Len(s), Len(s)))

HasSign(s) == Len(s) > 0 /\ SubSeq(s, 1, 1) \in {"-", "+"}

Unsigned(s) == IF HasSign(s) THEN SubSeq(s, 2, Len(s)) ELSE s

SignOf(s) == IF Len(s) > 0 /\ SubSeq(s, 1, 1) = "-" THEN -1 ELSE 1

IsIntText(s) == AllDigits(Unsigned(s))

IntTextValue(s) == SignOf(s) * DecValue(Unsigned(s))

HasTenths(s) ==
  LET u == Unsigned(s)
  IN  /\ Len(u) >= 3
      /\ SubSeq(u, Len(u) - 1, Len(u) - 1) = "."
      /\ IsDigit(SubSeq(u, Len(u), Len(u)))
      /\ AllDigits(SubSeq(u, 1, Len(u) - 2))

IsFloatText(s) == IsIntText(s) \/ HasTenths(s)

FloatTextTenths(s) ==
  LET u == Unsigned(s)
  IN  IF IsIntText(s) THEN 10 * IntTextValue(s)
      ELSE SignOf(s) * (10 * DecValue(SubSeq(u, 1, Len(u) - 2))
                        + DigitVal(SubSeq(u, Len(u), Len(u))))

\* Truncation toward zero of a value held in tenths: int(2.5) = 2, int(-2.5) = -2.
TruncTenths(t) == IF t >= 0 THEN t \div 10 ELSE -((-t) \div 10)

\* float(v)
ToFloat(v) ==
  CASE v.k = "float" -> v
    [] v.k = "int"   -> PyFloat(10 * v.n)
    [] v.k = "str"   -> IF IsFloatText(v.s) THEN PyFloat(FloatTextTenths(v.s))
                        ELSE Fault("ValueError")
    [] OTHER         -> Fault("TypeError")

\* int(v)
ToInt(v) ==
  CASE v.k = "int"   -> v
    [] v.k = "float" -> PyInt(TruncTenths(v.n))
    [] v.k = "str"   -> IF IsIntText(v.s) THEN PyInt(IntTextValue(v.s))
                        ELSE Fault("ValueError")
    [] OTHER         -> Fault("TypeError")

\* repr of a float held in tenths: str(3.0) = "3.0", str(-13.9) = "-13.9".
FloatRepr(t) ==
  LET a == IF t >= 0 THEN t ELSE -t
  IN  (IF t < 0 THEN "-" ELSE "") \o ToString(a \div 10) \o "." \o ToString(a % 10)

\* str(v)
ToStr(v) ==
  CASE v.k = "str"   -> v
    [] v.k = "nan"   -> PyStr("nan")
    [] v.k = "None"  -> PyStr("None")
    [] v.k = "int"   -> PyStr(ToString(v.n))
    [] v.k = "float" -> PyStr(FloatRepr(v.n))

\* s.split(sep) for a one-character separator.
RECURSIVE Split(_, _)
Split(s, sep) ==
  IF \E j \in 1..Len(s) : SubSeq(s, j, j) = sep
  THEN LET j == CHOOSE j \in 1..Len(s) :
                  /\ SubSeq(s, j, j) = sep
                  /\ \A h \in 1..(j - 1) : SubSeq(s, h, h) # sep
       IN  <<PyStr(SubSeq(s, 1, j - 1))>> \o Split(SubSeq(s, j + 1, Len(s)), sep)
  ELSE <<PyStr(s)>>

\* s.startswith(p)
StartsWith(s, p) == Len(s) >= Len(p) /\ SubSeq(s, 1, Len(p)) = p

(***************************************************************************)
(* One row of the DataFrame: a function from column names to cells.  A     *)
(* column the CSV does not have is a KeyError on access.                   *)
(***************************************************************************)
Columns ==
  {"uuid", "name", "amenity", "healthcare", "Lattitude", "Longitude",
   "addr_city", "addr_street", "addr_postcode", "operator", "operator_type",
   "operational_status", "opening_hours", "beds", "staff_doctors",
   "staff_nurses", "speciality", "dispensing", "emergency", "wheelchair",
   "insurance", "water_source", "electricity", "completeness", "osm_id",
   "changeset_timestamp"}

\* row[c]
Get(row, c) == IF c \in DOMAIN row THEN row[c] ELSE Fault("KeyError")

\* v != ''
NotEmptyStr(v) == ~(v.k = "str" /\ v.s = "")

\* facility_type = row['amenity'] or row['healthcare']
FacilityType(row) ==
  LET a == Get(row, "amenity")
  IN  IF IsFault(a) THEN a
      ELSE IF Truthy(a) THEN a
      ELSE Get(row, "healthcare")

\* row[c] if pd.notna(row[c]) else None
CopyOrNone(row, c) ==
  LET v == Get(row, c)
  IN  IF IsFault(v) THEN v ELSE IF NotNa(v) THEN v ELSE PyNone

\* float(row[c]) if pd.notna(row[c]) else None
FloatOrNone(row, c) ==
  LET v == Get(row, c)
  IN  IF IsFault(v) THEN v ELSE IF NotNa(v) THEN ToFloat(v) ELSE PyNone

\* Variant of IntOrNone that coerces an unparsable value to None.
IntOrNoneCoerce(row, c) ==
  LET v == Get(row, c)
  IN  IF IsFault(v) THEN v
      ELSE IF NotNa(v) /\ NotEmptyStr(v) /\ ~IsFault(ToInt(v)) THEN ToInt(v)
      ELSE PyNone

\* int(row[c]) if pd.notna(row[c]) and row[c] != '' else None
IntOrNone(row, c) ==
  LET v == Get(row, c)
  IN  IF IsFault(v) THEN v
      ELSE IF NotNa(v) /\ NotEmptyStr(v) THEN ToInt(v) ELSE PyNone

\* str(row['speciality']).split(';') if notna and != '' else []
Specialities(row) ==
  LET v == Get(row, "speciality")
  IN  IF IsFault(v) THEN v
      ELSE IF NotNa(v) /\ NotEmptyStr(v) THEN PyList(Split(ToStr(v).s, ";"))
      ELSE PyList(<<>>)

\* float(row['completeness']) if pd.notna(row['completeness']) else 0
Completeness(row) ==
  LET v == Get(row, "completeness")
  IN  IF IsFault(v) THEN v ELSE IF NotNa(v) THEN ToFloat(v) ELSE PyInt(0)

\* str(row[c])
StrOf(row, c) ==
  LET v == Get(row, c)
  IN  IF IsFault(v) THEN v ELSE ToStr(v)

\* row['name'] if pd.notna(row['name']) else f"Unnamed {facility_type}"
NameOf(row, ftype) ==
  LET v == Get(row, "name")
  IN  IF IsFault(v) THEN v
      ELSE IF NotNa(v) THEN v
      ELSE PyStr("Unnamed " \o ToStr(ftype).s)

Location(row) ==
  PyDict([latitude  |-> FloatOrNone(row, "Lattitude"),
          longitude |-> FloatOrNone(row, "Longitude"),
          city      |-> CopyOrNone(row, "addr_city"),
          address   |-> CopyOrNone(row, "addr_street"),
          postcode  |-> CopyOrNone(row, "addr_postcode")])

Details(row) ==
  PyDict([operator           |-> CopyOrNone(row, "operator"),
          operator_type      |-> CopyOrNone(row, "operator_type"),
          operational_status |-> CopyOrNone(row, "operational_status"),
          opening_hours      |-> CopyOrNone(row, "opening_hours"),
          beds               |-> IntOrNone(row, "beds"),
          staff_doctors      |-> IntOrNone(row, "staff_doctors"),
          staff_nurses       |-> IntOrNone(row, "staff_nurses"),
          specialities       |-> Specialities(row)])

Services(row) ==
  PyDict([dispensing |-> CopyOrNone(row, "dispensing"),
          emergency  |-> CopyOrNone(row, "emergency"),
          wheelchair |-> CopyOrNone(row, "wheelchair"),
          insurance  |-> CopyOrNone(row, "insurance")])

Infrastructure(row) ==
  PyDict([water_source |-> CopyOrNone(row, "water_source"),
          electricity  |-> CopyOrNone(row, "electricity")])

Metadata(row) ==
  PyDict([completeness |-> Completeness(row),
          osm_id       |-> StrOf(row, "osm_id"),
          last_updated |-> CopyOrNone(row, "changeset_timestamp")])

\* The dict literal of lines 31-67, before the cleanup.
BuildFacility(row, ftype) ==
  [id             |-> StrOf(row, "uuid"),
   name           |-> NameOf(row, ftype),
   type           |-> ToStr(ftype),
   location       |-> Location(row),
   details        |-> Details(row),
   services       |-> Services(row),
   infrastructure |-> Infrastructure(row),
   metadata       |-> Metadata(row)]

\* An exception raised while a value (or a member of a dict) was evaluated.
Raises(v) ==
  \/ IsFault(v)
  \/ v.k = "dict" /\ \E key \in DOMAIN v.d : IsFault(v.d[key])

\* facility = {k: v for k, v in facility.items() if v}
SparseFilter(fac) ==
  [key \in {q \in DOMAIN fac : Truthy(fac[q])} |-> fac[key]]

\* What one iteration of the loop of process_healthsites does with a row.
RowOutcome(row) ==
  LET ftype == FacilityType(row)
      fac == BuildFacility(row, ftype)
  IN  IF IsFault(ftype) THEN "fault"
      ELSE IF IsNa(ftype) THEN "skip"
      ELSE IF \E key \in DOMAIN fac : Raises(fac[key]) THEN "fault"
      ELSE "append"

\* The record appended for a row whose outcome is "append".
FacilityOf(row) == SparseFilter(BuildFacility(row, FacilityType(row)))

\* Variant of ListAppend that inserts at the front.
ListPrepend(list, x) == <<x>> \o list

\* processed.append(facility)
ListAppend(list, x) == Append(list, x)

\* d.get(key, default) on a dict held as a function
DictGet(d, key, default) == IF key \in DOMAIN d THEN d[key] ELSE default

(***************************************************************************)
(* The tallies of the driver (lines 80-101).                               *)
(***************************************************************************)
EmptyDict == PyDict(<<>>)

\* f.get('location', {}).get('latitude')
WithCoordinates(f) ==
  Truthy(DictGet(DictGet(f, "location", EmptyDict).d, "latitude", PyNone))

\* f.get('name') and f['name'].startswith('Unnamed') == False
WithName(f) ==
  /\ Truthy(DictGet(f, "name", PyNone))
  /\ ~StartsWith(f["name"].s, "Unnamed")

\* f.get('details', {}).get('operator')
WithOperator(f) ==
  Truthy(DictGet(DictGet(f, "details", EmptyDict).d, "operator", PyNone))

\* The dict literal of lines 81-90.
NewSummary(fs) ==
  [total_facilities |-> Len(fs),
   facility_types   |-> <<>>,
   by_location      |-> <<>>,
   data_quality     |->
     [with_coordinates |-> Cardinality({j \in 1..Len(fs) : WithCoordinates(fs[j])}),
      with_name        |-> Cardinality({j \in 1..Len(fs) : WithName(fs[j])}),
      with_operator    |-> Cardinality({j \in 1..Len(fs) : WithOperator(fs[j])})]]

\* Variant of TallyInc that forgets the count so far.
TallySetOne(d, key) ==
  [q \in DOMAIN d \cup {key} |-> IF q = key THEN 1 ELSE d[q]]

\* d[key] = d.get(key, 0) + 1
TallyInc(d, key) ==
  [q \in DOMAIN d \cup {key} |-> IF q = key THEN DictGet(d, key, 0) + 1 ELSE d[q]]

\* facility.get('type', 'unknown')
TypeKey(f) == DictGet(f, "type", PyStr("unknown"))

\* facility.get('location', {}).get('city', 'Unknown')
CityKey(f) ==
  DictGet(DictGet(f, "location", EmptyDict).d, "city", PyStr("Unknown"))

\* Variant of CityCounted without the test.
CityAlwaysCounted(city) == TRUE

\* if city:
CityCounted(city) == Truthy(city)

\* Variant of SampleFacilities without the slice.
SampleUncapped(fs) == fs

\* processed_facilities[:50]
SampleFacilities(fs) ==
  SubSeq(fs, 1, IF Len(fs) < SampleSize THEN Len(fs) ELSE SampleSize)

(***************************************************************************)
(* The two output files and the input file.                                *)
(***************************************************************************)
Absent == [k |-> "absent"]

Stale == [k |-> "stale"]

Unbound == [k |-> "unbound"]

\* json.dump({'facilities': ..., 'summary': ...})
FullJson(fs, sm) == [k |-> "json", facilities |-> fs, summary |-> sm]

\* json.dump({'summary': ..., 'sample_facilities': ...})
CompactJson(fs, sm) ==
  [k |-> "json", summary |-> sm, sample_facilities |-> SampleFacilities(fs)]

\* Variant of ReadCsv that swallows a missing file into an empty table.
ReadCsvOrEmpty(file) ==
  [k |-> "DataFrame", rows |-> IF file.exists THEN file.table ELSE <<>>]

\* pd.read_csv(csv_path)
ReadCsv(file) ==
  IF file.exists THEN [k |-> "DataFrame", rows |-> file.table]
  ELSE Fault("FileNotFoundError")

(***************************************************************************)
(* Inputs.  read_csv turns an empty cell into NaN; a numeric column that   *)
(* holds a non-numeric text is read as text throughout.                    *)
(***************************************************************************)
BlankRow ==
  [c \in Columns |-> IF c = "uuid" THEN PyStr("abc")
                     ELSE IF c = "osm_id" THEN PyInt(7) ELSE NaN]

SparseRow == [BlankRow EXCEPT !["amenity"] = PyStr("pharmacy")]

FullRow ==
  [BlankRow EXCEPT
     !["uuid"] = PyStr("u1"), !["name"] = PyStr("Kamuzu Central"),
     !["amenity"] = PyStr("hospital"), !["healthcare"] = PyStr("hospital"),
     !["Lattitude"] = PyFloat(-139), !["Longitude"] = PyFloat(337),
     !["addr_city"] = PyStr("Lilongwe"), !["addr_street"] = PyStr("M1"),
     !["operator"] = PyStr("MoH"), !["operator_type"] = PyStr("government"),
     !["opening_hours"] = PyStr("24/7"), !["beds"] = PyFloat(30),
     !["staff_doctors"] = PyFloat(25), !["speciality"] = PyStr("surgery;;ent"),
     !["dispensing"] = PyStr("yes"), !["emergency"] = PyStr("yes"),
     !["water_source"] = PyStr("tap"), !["electricity"] = PyStr("grid"),
     !["completeness"] = PyFloat(5), !["osm_id"] = PyInt(12),
     !["changeset_timestamp"] = PyStr("2020-01-01")]

HealthcareOnlyRow ==
  [BlankRow EXCEPT !["healthcare"] = PyStr("clinic"), !["name"] = PyStr("Bwaila")]

SkippedBadRow == [BlankRow EXCEPT !["beds"] = PyStr("abc")]

HealthcareBadRow ==
  [BlankRow EXCEPT !["healthcare"] = PyStr("clinic"),
                   !["completeness"] = PyStr("50%")]

BadBedsRow == [SparseRow EXCEPT !["beds"] = PyStr("abc")]

BadLatRow == [FullRow EXCEPT !["Lattitude"] = PyStr("13S")]

ZeroLatRow ==
  [SparseRow EXCEPT !["amenity"] = PyStr("clinic"), !["uuid"] = NaN,
                    !["Lattitude"] = PyFloat(0), !["Longitude"] = PyFloat(337),
                    !["addr_city"] = PyStr("Blantyre"),
                    !["operator"] = PyStr("MoH")]

LatOnlyRow ==
  [SparseRow EXCEPT !["Lattitude"] = PyFloat(-139), !["name"] = PyStr("Area 25")]

UnnamedRoadRow ==
  [SparseRow EXCEPT !["name"] = PyStr("Unnamed Road Clinic"),
                    !["addr_city"] = PyStr("Lilongwe")]

TextNumbersRow ==
  [SparseRow EXCEPT !["beds"] = PyStr("7"), !["Lattitude"] = PyStr("-13.9"),
                    !["Longitude"] = PyStr("33.7"),
                    !["completeness"] = PyStr("0"),
                    !["addr_city"] = PyStr("Lilongwe")]

Rows ==
  {BlankRow, SparseRow, FullRow, HealthcareOnlyRow, SkippedBadRow,
   BadBedsRow, ZeroLatRow, LatOnlyRow, UnnamedRoadRow}

\* Rows whose numeric columns were read as text.
TextRows == {FullRow, HealthcareBadRow, BadLatRow, TextNumbersRow}

SeqsUpTo(S, n) == UNION {[1..m -> S] : m \in 0..n}

Tables == SeqsUpTo(Rows, MaxRows) \cup SeqsUpTo(TextRows, MaxBrokenRows)

\* A table whose CSV lacks one column.
DropColumn(t, c) ==
  [j \in 1..Len(t) |-> [q \in DOMAIN t[j] \ {c} |-> t[j][q]]]

DroppedColumns == {"amenity", "healthcare", "beds"}

BrokenTables ==
  {DropColumn(t, c) : t \in SeqsUpTo({BlankRow, SparseRow, FullRow}, MaxBrokenRows),
                      c \in DroppedColumns}

\* Tables longer than the sample: every fifth row has no type.
LongRow(j) ==
  LET r == IF j % 5 = 0 THEN BlankRow
           ELSE IF j % 5 = 1 THEN FullRow
           ELSE IF j % 5 = 2 THEN ZeroLatRow
           ELSE SparseRow
  IN  [r EXCEPT !["uuid"] = PyStr("row" \o ToString(j))]

LongTables ==
  {[j \in 1..n |-> LongRow(j)] : n \in SampleSize..(SampleSize + LongExtra)}

Inputs ==
  {[exists |-> TRUE, table |-> t] : t \in Tables \cup BrokenTables \cup LongTables}
    \cup {[exists |-> FALSE, table |-> <<>>]}

PriorDisks ==
  {[full |-> Absent, llm |-> Absent], [full |-> Stale, llm |-> Stale]}

(***************************************************************************)
(* The run.                                                                *)
(***************************************************************************)
Init ==
  /\ pc = "load"
  /\ csv \in Inputs
  /\ prior \in PriorDisks
  /\ disk = prior
  /\ df = <<>>
  /\ idx = 0
  /\ processed = <<>>
  /\ origin = <<>>
  /\ processed_facilities = <<>>
  /\ summary = Unbound
  /\ i = 0

\* df = pd.read_csv(csv_path); then the call of process_healthsites(df)
Load ==
  /\ pc = "load"
  /\ IF IsFault(ReadCsv(csv))
     THEN /\ pc' = "aborted"
          /\ df' = df
     ELSE /\ pc' = "transform"
          /\ df' = ReadCsv(csv).rows
  /\ UNCHANGED <<csv, prior, disk, idx, processed, origin,
                 processed_facilities, summary, i>>

\* One iteration of  for idx, row in df.iterrows()
ProcessRow ==
  /\ pc = "transform"
  /\ idx < Len(df)
  /\ LET row == df[idx + 1]
         out == RowOutcome(row)
     IN  /\ pc' = IF out = "fault" THEN "aborted" ELSE "transform"
         /\ idx' = idx + 1
         /\ processed' = IF out = "append"
                         THEN ListAppend(processed, FacilityOf(row))
                         ELSE processed
         /\ origin' = IF out = "append" THEN Append(origin, idx + 1) ELSE origin
  /\ UNCHANGED <<csv, prior, disk, df, processed_facilities, summary, i>>

\* return processed;  processed_facilities = process_healthsites(df)
ReturnProcessed ==
  /\ pc = "transform"
  /\ idx = Len(df)
  /\ processed_facilities' = processed
  /\ pc' = "summary"
  /\ UNCHANGED <<csv, prior, disk, df, idx, processed, origin, summary, i>>

\* summary = {...}
BuildSummary ==
  /\ pc = "summary"
  /\ summary' = NewSummary(processed_facilities)
  /\ i' = 0
  /\ pc' = "tally_type"
  /\ UNCHANGED <<csv, prior, disk, df, idx, processed, origin, processed_facilities>>

\* One iteration of the loop of lines 93-95.
TallyType ==
  /\ pc = "tally_type"
  /\ i < Len(processed_facilities)
  /\ summary' = [summary EXCEPT !.facility_types =
                   TallyInc(@, TypeKey(processed_facilities[i + 1]))]
  /\ i' = i + 1
  /\ UNCHANGED <<pc, csv, prior, disk, df, idx, processed, origin, processed_facilities>>

EndTallyType ==
  /\ pc = "tally_type"
  /\ i = Len(processed_facilities)
  /\ i' = 0
  /\ pc' = "tally_city"
  /\ UNCHANGED <<csv, prior, disk, df, idx, processed, origin,
                 processed_facilities, summary>>

\* One iteration of the loop of lines 98-101.
TallyCity ==
  /\ pc = "tally_city"
  /\ i < Len(processed_facilities)
  /\ LET city == CityKey(processed_facilities[i + 1])
     IN  summary' = IF CityCounted(city)
                    THEN [summary EXCEPT !.by_location = TallyInc(@, city)]
                    ELSE summary
  /\ i' = i + 1
  /\ UNCHANGED <<pc, csv, prior, disk, df, idx, processed, origin, processed_facilities>>

EndTallyCity ==
  /\ pc = "tally_city"
  /\ i = Len(processed_facilities)
  /\ pc' = "write_full"
  /\ UNCHANGED <<csv, prior, disk, df, idx, processed, origin,
                 processed_facilities, summary, i>>

\* with open(output_path, 'w') as f: json.dump(...)
WriteFull ==
  /\ pc = "write_full"
  /\ disk' = [disk EXCEPT !.full = FullJson(processed_facilities, summary)]
  /\ pc' = "write_compact"
  /\ UNCHANGED <<csv, prior, df, idx, processed, origin,
                 processed_facilities, summary, i>>

\* with open(compact_path, 'w') as f: json.dump(compact_version, ...)
WriteCompact ==
  /\ pc = "write_compact"
  /\ disk' = [disk EXCEPT !.llm = CompactJson(processed_facilities, summary)]
  /\ pc' = "done"
  /\ UNCHANGED <<csv, prior, df, idx, processed, origin,
                 processed_facilities, summary, i>>

Next ==
  \/ Load
  \/ ProcessRow
  \/ ReturnProcessed
  \/ BuildSummary
  \/ TallyType
  \/ EndTallyType
  \/ TallyCity
  \/ EndTallyCity
  \/ WriteFull
  \/ WriteCompact

Spec == Init /\ [][Next]_vars

TypeOK == pc \in {"load", "transform", "summary", "tally_type", "tally_city",
                  "write_full", "write_compact", "done", "aborted"}

(***************************************************************************)
(* Vocabulary of the properties.                                           *)
(***************************************************************************)
\* A cell of the CSV that holds something.
Present(v) == v.k # "nan"

\* Every row has the whole schema of the CSV.
FullSchema == \A j \in 1..Len(df) : DOMAIN df[j] = Columns

\* process_healthsites has returned its list.
Returned ==
  pc \in {"summary", "tally_type", "tally_city", "write_full", "write_compact", "done"}

\* Both tally loops have run to their end.
Tallied == pc \in {"write_full", "write_compact", "done"}

\* Rows whose iteration ran to its end without raising.
RowsDone == IF pc = "aborted" /\ idx > 0 THEN idx - 1 ELSE idx

\* Positions of the produced Facilities whose source row satisfies P.
ProducedWhere(P(_)) == {h \in 1..Len(origin) : P(df[origin[h]])}

NumericColumns ==
  {"Lattitude", "Longitude", "completeness", "beds", "staff_doctors", "staff_nurses"}

\* The row holds, in a numeric field, a text that is no number.
Malformed(row) ==
  \E c \in NumericColumns \cap DOMAIN row :
     row[c].k = "str" /\ ~IsFloatText(row[c].s)

\* The row is not skipped by the type test of the loop.
PassesGate(row) == "amenity" \in DOMAIN row /\ Present(row["amenity"])

RECURSIVE SumCounts(_)
SumCounts(d) ==
  IF DOMAIN d = {} THEN 0
  ELSE LET q == CHOOSE q \in DOMAIN d : TRUE
       IN  d[q] + SumCounts([r \in DOMAIN d \ {q} |-> d[r]])

Smaller(a, b) == IF a < b THEN a ELSE b

\* Section, field and source column of every copied or parsed field.
FieldSources ==
  {<<"location", "latitude", "Lattitude">>, <<"location", "longitude", "Longitude">>,
   <<"location", "city", "addr_city">>, <<"location", "address", "addr_street">>,
   <<"location", "postcode", "addr_postcode">>,
   <<"details", "operator", "operator">>,
   <<"details", "operator_type", "operator_type">>,
   <<"details", "operational_status", "operational_status">>,
   <<"details", "opening_hours", "opening_hours">>,
   <<"details", "beds", "beds">>, <<"details", "staff_doctors", "staff_doctors">>,
   <<"details", "staff_nurses", "staff_nurses">>,
   <<"details", "specialities", "speciality">>,
   <<"services", "dispensing", "dispensing">>, <<"services", "emergency", "emergency">>,
   <<"services", "wheelchair", "wheelchair">>, <<"services", "insurance", "insurance">>,
   <<"infrastructure", "water_source", "water_source">>,
   <<"infrastructure", "electricity", "electricity">>,
   <<"metadata", "last_updated", "changeset_timestamp">>}

(***************************************************************************)
(* C1.  A row yields a Facility iff amenity or healthcare is non-blank,    *)
(* and the Facility's type is amenity when present, otherwise healthcare.  *)
(* The code does not do this: a blank amenity is NaN, which is truthy, so  *)
(* `amenity or healthcare` never falls back and the row is skipped.        *)
(***************************************************************************)
C1_InclusionIffEitherType ==
  FullSchema =>
    \A j \in 1..RowsDone :
      LET row == df[j]
          produced == {h \in 1..Len(origin) : origin[h] = j}
          wanted == IF Present(row["amenity"]) THEN row["amenity"]
                    ELSE row["healthcare"]
      IN  /\ (produced # {}) <=> (Present(row["amenity"]) \/ Present(row["healthcare"]))
          /\ \A h \in produced : processed[h]["type"] = wanted

(***************************************************************************)
(* C2.  In every emitted Facility a field whose source column is blank is  *)
(* absent from the record.  The code does not do this: the blank field is  *)
(* built as None (or []) inside its section and the cleanup only looks at  *)
(* the top-level keys, whose sections are never empty.                     *)
(***************************************************************************)
C2_BlankFieldsOmitted ==
  FullSchema =>
    \A h \in 1..Len(processed) : \A fs \in FieldSources :
      ~Present(df[origin[h]][fs[3]]) =>
         ~(fs[1] \in DOMAIN processed[h] /\ fs[2] \in DOMAIN processed[h][fs[1]].d)

(***************************************************************************)
(* C3 as stated.  A malformed numeric value in any row, whatever its other *)
(* fields, keeps process_healthsites from returning a list.                *)
(***************************************************************************)
C3_AnyMalformedRowAborts ==
  (\E j \in 1..Len(csv.table) : Malformed(csv.table[j])) => ~Returned

(***************************************************************************)
(* C3 amended.  A malformed numeric value in a row that passes the type    *)
(* test aborts the run: the loop never runs to its end, the function never *)
(* returns and no Facility list is bound.                                  *)
(***************************************************************************)
C3_GatedMalformedRowAborts ==
  (\E j \in 1..Len(csv.table) : PassesGate(csv.table[j]) /\ Malformed(csv.table[j]))
    => /\ ~Returned
       /\ ~(pc = "transform" /\ idx = Len(df))
       /\ processed_facilities = <<>>
       /\ summary = Unbound

\* The run aborted on a malformed row that came after a produced Facility.
C3_Witness ==
  /\ pc = "aborted"
  /\ Len(processed) >= 1
  /\ idx >= 2
  /\ PassesGate(df[idx]) /\ Malformed(df[idx])

(***************************************************************************)
(* C4.  The Facilities are in input row order: the source rows of the list *)
(* are strictly increasing, every row that yields a Facility yields exactly*)
(* one, at its place, and the returned list is that list.                  *)
(***************************************************************************)
C4_RowOrderPreserved ==
  /\ Len(processed) = Len(origin)
  /\ \A h \in 1..Len(processed) : processed[h] = FacilityOf(df[origin[h]])
  /\ \A g, h \in 1..Len(origin) : g < h => origin[g] < origin[h]
  /\ {origin[h] : h \in 1..Len(origin)}
       = {j \in 1..RowsDone : RowOutcome(df[j]) = "append"}
  /\ Returned => processed_facilities = processed

\* Two different Facilities were returned with a skipped row between them.
C4_Witness ==
  /\ Returned
  /\ Len(processed_facilities) >= 2
  /\ origin[2] > origin[1] + 1
  /\ processed_facilities[1] # processed_facilities[2]

(***************************************************************************)
(* C5.  Once the tallies are built, total_facilities is the length of the  *)
(* Facility list and the counts of facility_types add up to it.            *)
(***************************************************************************)
C5_SummaryConsistent ==
  /\ pc = "tally_type" => SumCounts(summary.facility_types) = i
  /\ (Tallied \/ pc = "tally_city") =>
        /\ summary.total_facilities = Len(processed_facilities)
        /\ SumCounts(summary.facility_types) = summary.total_facilities

\* Three Facilities of two types have been tallied.
C5_Witness ==
  /\ Tallied
  /\ summary.total_facilities >= 3
  /\ Cardinality(DOMAIN summary.facility_types) >= 2
  /\ \E q \in DOMAIN summary.facility_types : summary.facility_types[q] >= 2

(***************************************************************************)
(* C6.  with_coordinates is the number of Facilities whose source row has  *)
(* both Lattitude and Longitude.  The code does not do this: it tests the  *)
(* truthiness of the latitude alone, so latitude 0.0 is not counted and a  *)
(* row with a latitude and no longitude is.                                *)
(***************************************************************************)
HasCoordinates(row) == Present(row["Lattitude"]) /\ Present(row["Longitude"])

C6_WithCoordinatesCount ==
  (FullSchema /\ summary # Unbound) =>
    summary.data_quality.with_coordinates = Cardinality(ProducedWhere(HasCoordinates))

(***************************************************************************)
(* C7.  with_name is the number of Facilities whose source row has a name. *)
(* The code does not do this: it tells a defaulted name by the prefix      *)
(* 'Unnamed', so a real name with that prefix is not counted.              *)
(***************************************************************************)
HasName(row) == Present(row["name"])

C7_WithNameCount ==
  (FullSchema /\ summary # Unbound) =>
    summary.data_quality.with_name = Cardinality(ProducedWhere(HasName))

(***************************************************************************)
(* C8.  Once the tallies are built, by_location has exactly the cities of  *)
(* the produced Facilities as keys, each with the number of Facilities of  *)
(* that city; a Facility without a city is counted under no key.           *)
(***************************************************************************)
HasCity(row) == Present(row["addr_city"])

C8_ByLocationCounts ==
  (FullSchema /\ Tallied) =>
    /\ DOMAIN summary.by_location
         = {df[origin[h]]["addr_city"] : h \in ProducedWhere(HasCity)}
    /\ \A c \in DOMAIN summary.by_location :
         summary.by_location[c]
           = Cardinality({h \in 1..Len(origin) : df[origin[h]]["addr_city"] = c})
    /\ SumCounts(summary.by_location) = Cardinality(ProducedWhere(HasCity))
    /\ PyNone \notin DOMAIN summary.by_location
    /\ PyStr("Unknown") \notin DOMAIN summary.by_location

\* Two Facilities of one city and one without a city have been tallied.
C8_Witness ==
  /\ Tallied /\ FullSchema
  /\ \E c \in DOMAIN summary.by_location : summary.by_location[c] >= 2
  /\ Cardinality(ProducedWhere(HasCity)) < Len(processed_facilities)

(***************************************************************************)
(* C9.  The sample file holds the first min(50, total) records of the full *)
(* file, in order, and both files hold the same summary, whose total is    *)
(* the length of the full list.                                            *)
(***************************************************************************)
C9_SampleIsPrefix ==
  pc = "done" =>
    LET full == disk.full.facilities
        sample == disk.llm.sample_facilities
    IN  /\ Len(sample) = Smaller(SampleSize, disk.full.summary.total_facilities)
        /\ \A h \in 1..Len(sample) : sample[h] = full[h]
        /\ Len(sample) <= Len(full)
        /\ disk.llm.summary = disk.full.summary
        /\ disk.full.summary.total_facilities = Len(full)

\* Both files are written and the full list is longer than the sample.
C9_Witness ==
  /\ pc = "done"
  /\ Len(disk.full.facilities) > SampleSize
  /\ Len(disk.llm.sample_facilities) = SampleSize

(***************************************************************************)
(* C10.  A file is written only after the load, the whole transform and    *)
(* both tallies; a run that aborts, or whose input makes it abort, leaves  *)
(* both files as the previous run left them.                               *)
(***************************************************************************)
InputAborts ==
  \/ ~csv.exists
  \/ \E j \in 1..Len(csv.table) : RowOutcome(csv.table[j]) = "fault"

C10_NoOutputOnAbort ==
  /\ disk # prior =>
       /\ pc \in {"write_compact", "done"}
       /\ df = csv.table /\ idx = Len(df)
       /\ processed_facilities = processed
       /\ i = Len(processed_facilities)
       /\ SumCounts(summary.facility_types) = Len(processed_facilities)
  /\ pc = "aborted" => disk = prior
  /\ (disk # prior \/ Returned) => ~InputAborts

\* The run aborted in the middle of the transform over files of an earlier run.
C10_Witness ==
  /\ pc = "aborted"
  /\ prior.full = Stale
  /\ idx >= 2
  /\ Len(processed) >= 1
  /\ disk = prior

====
